---- MODULE Spec2Model ----
(***************************************************************************)
(* Model of app.py: a JSON-config driven batch downloader.                 *)
(*   build_ydl_opts : (item, cfg) -> option set handed to the retrieval    *)
(*                    engine (layered item-over-global option lookup)      *)
(*   download_item  : url check, option building, retrieval call           *)
(*   main           : pre-flight checks and the sequential batch loop      *)
(***************************************************************************)
EXTENDS Integers, Sequences, FiniteSets, TLC

VARIABLES
    argGiven,     \* len(sys.argv) >= 2
    fileExists,   \* config_path.exists()
    fileJson,     \* the JSON document stored in the config file
    cfg,          \* main's local cfg (the loaded document)
    items,        \* main's local items
    idx,          \* loop index of enumerate(items, 1)
    pc,           \* control point of main / download_item
    ydl_opts,     \* option set built for the item in progress
    rc,           \* value returned by main (process exit code), -1 while running
    dirs,         \* directories existing on disk
    trace         \* ordered history of log lines and collaborator calls

vars == <<argGiven, fileExists, fileJson, cfg, items, idx, pc, ydl_opts, rc, dirs, trace>>

-----------------------------------------------------------------------------
(* JSON / Python values.  Every value has the same shape so that values of *)
(* different Python types can be compared.                                 *)

Absent  == [k |-> "absent", s |-> "", n |-> 0, b |-> FALSE]   \* key not in dict
None    == [k |-> "none",   s |-> "", n |-> 0, b |-> FALSE]   \* JSON null / Python None
VStr(x)  == [k |-> "str",    s |-> x,  n |-> 0, b |-> FALSE]
VInt(x)  == [k |-> "int",    s |-> "", n |-> x, b |-> FALSE]
VBool(x) == [k |-> "bool",   s |-> "", n |-> 0, b |-> x]

\* Python truth value of a value (bool(v)).
Truthy(v) ==
    CASE v.k = "str"  -> v.s # ""
      [] v.k = "int"  -> v.n # 0
      [] v.k = "bool" -> v.b
      [] OTHER        -> FALSE

\* a or b
PyOr(a, b) == IF Truthy(a) THEN a ELSE b

\* d.get(key)
DictGet(d, key) == IF d[key] = Absent THEN None ELSE d[key]

\* d.get(key, default)
DictGetDefault(d, key, default) == IF d[key] = Absent THEN default ELSE d[key]

\* key in d
DictHas(d, key) == d[key] # Absent

\* str(v)
PyStr(v) ==
    CASE v.k = "str"  -> v.s
      [] v.k = "int"  -> ToString(v.n)
      [] v.k = "bool" -> (IF v.b THEN "True" ELSE "False")
      [] OTHER        -> "None"

\* str.lower() on the strings of the model's vocabulary.
LowerStr(s) ==
    CASE s = "AUDIO" -> "audio"
      [] s = "Audio" -> "audio"
      [] s = "VIDEO" -> "video"
      [] OTHER       -> s

\* Path(p).expanduser().resolve() for a relative path, then str().
ResolvePath(p) == "/cwd/" \o p

-----------------------------------------------------------------------------
(* Keys of the two dictionaries.                                           *)

OverridableKeys ==
    {"filename_template", "proxy", "ffmpeg_location", "cookies",
     "concurrent_fragments", "convert_to_audio", "video_format", "quality",
     "audio_format", "audio_bitrate", "rate_limit", "remove_sponsor_segments"}

ItemKeys == OverridableKeys \cup {"url", "type"}
CfgKeys  == OverridableKeys \cup {"output_dir", "stop_on_error"}

EmptyItem == [f \in ItemKeys |-> Absent]
EmptyCfg  == [f \in CfgKeys  |-> Absent]

-----------------------------------------------------------------------------
(* build_ydl_opts.  The option set is a Python dict: a record of values    *)
(* plus the insertion order of its keys.                                   *)

Retries == 10

SponsorCategories == <<"sponsor", "intro", "outro", "interaction", "selfpromo">>

NoOpts ==
    [keys |-> << >>,
     outtmpl |-> Absent, noplaylist |-> Absent, quiet |-> Absent,
     progress_hooks |-> Absent, retries |-> Absent,
     concurrent_fragment_downloads |-> Absent,
     proxy |-> Absent, ffmpeg_location |-> Absent, cookiefile |-> Absent,
     format |-> Absent, merge_output_format |-> Absent, ratelimit |-> Absent,
     postprocessors |-> << >>, sponsorblock_mark |-> << >>]

HasKey(o, key) == \E i \in 1..Len(o.keys) : o.keys[i] = key

\* ydl_opts[key] = v
SetKey(o, key, v) ==
    [o EXCEPT ![key] = v,
              !.keys = IF HasKey(o, key) THEN @ ELSE Append(@, key)]

\* The locals of build_ydl_opts, one per source line.
OutDir(c) == ResolvePath(DictGetDefault(c, "output_dir", VStr("downloads")).s)

FilenameTemplate(it, c) ==
    PyOr(PyOr(DictGet(it, "filename_template"), DictGet(c, "filename_template")),
         VStr("%(title)s.%(ext)s"))

Outtmpl(it, c) == VStr(OutDir(c) \o "/" \o FilenameTemplate(it, c).s)

Proxy(it, c) == PyOr(DictGet(it, "proxy"), DictGet(c, "proxy"))

FfmpegLocation(it, c) == PyOr(DictGet(it, "ffmpeg_location"), DictGet(c, "ffmpeg_location"))

Cookiefile(it, c) == PyOr(DictGet(it, "cookies"), DictGet(c, "cookies"))

ConcurrentFragments(it, c) ==
    DictGetDefault(it, "concurrent_fragments",
                   DictGetDefault(c, "concurrent_fragments", VInt(5)))

\* item.get("type") or "video"; .lower() exists on str only.
RequestedTypeRaw(it) == PyOr(DictGet(it, "type"), VStr("video"))

LowerRaises(it) == RequestedTypeRaw(it).k # "str"

\* the type compared without lower-casing
RequestedTypeNoLower(it) == RequestedTypeRaw(it).s

RequestedType(it) == LowerStr(RequestedTypeRaw(it).s)

ConvertToAudio(it, c) ==
    DictGetDefault(it, "convert_to_audio",
                   DictGetDefault(c, "convert_to_audio", VBool(FALSE)))

VideoFormat(it, c) ==
    DictGetDefault(it, "video_format", DictGetDefault(c, "video_format", VStr("mp4")))

Quality(it, c) ==
    DictGetDefault(it, "quality", DictGetDefault(c, "quality", VStr("best")))

AudioFormat(it, c) ==
    DictGetDefault(it, "audio_format", DictGetDefault(c, "audio_format", VStr("mp3")))

AudioBitrate(it, c) ==
    VStr(PyStr(DictGetDefault(it, "audio_bitrate",
                             DictGetDefault(c, "audio_bitrate", VInt(192)))))

ExtractAudio(it, c) ==
    [key |-> "FFmpegExtractAudio",
     preferredcodec |-> AudioFormat(it, c),
     preferredquality |-> AudioBitrate(it, c)]

RateLimit(it, c) ==
    DictGetDefault(it, "rate_limit", DictGet(c, "rate_limit"))

RemoveSponsorSegments(it, c) ==
    DictGetDefault(it, "remove_sponsor_segments",
                   DictGetDefault(c, "remove_sponsor_segments", VBool(FALSE)))

\* ydl_opts = {...} literal
DefaultOpts(it, c) ==
    LET o1 == SetKey(NoOpts, "outtmpl", Outtmpl(it, c))
        o2 == SetKey(o1, "noplaylist", VBool(TRUE))
        o3 == SetKey(o2, "quiet", VBool(FALSE))
        o4 == SetKey(o3, "progress_hooks", VStr("_progress_hook"))
        o5 == SetKey(o4, "retries", VInt(Retries))
    IN  SetKey(o5, "concurrent_fragment_downloads", ConcurrentFragments(it, c))

\* if proxy / if ffmpeg_location / if cookiefile
NetworkOpts(o, it, c) ==
    LET o1 == IF Truthy(Proxy(it, c)) THEN SetKey(o, "proxy", Proxy(it, c)) ELSE o
        o2 == IF Truthy(FfmpegLocation(it, c))
              THEN SetKey(o1, "ffmpeg_location", FfmpegLocation(it, c)) ELSE o1
    IN  IF Truthy(Cookiefile(it, c)) THEN SetKey(o2, "cookiefile", Cookiefile(it, c)) ELSE o2

\* the audio branch of the format selection
AudioOpts(o, it, c) ==
    LET o1 == SetKey(o, "format", VStr("bestaudio/best"))
    IN  [o1 EXCEPT !.postprocessors = <<ExtractAudio(it, c)>>,
                   !.keys = Append(@, "postprocessors")]

\* the quality setting ignored: always the composite selector
VideoOptsAlwaysBest(o, it, c) ==
    LET o1 == SetKey(o, "format", VStr("bv*+ba/b"))
        o2 == SetKey(o1, "merge_output_format", VideoFormat(it, c))
    IN  IF Truthy(ConvertToAudio(it, c))
        THEN [o2 EXCEPT !.postprocessors = Append(@, ExtractAudio(it, c)),
                        !.keys = Append(@, "postprocessors")]
        ELSE o2

\* the video branch of the format selection
VideoOpts(o, it, c) ==
    LET o1 == IF Quality(it, c) = VStr("best")
              THEN SetKey(o, "format", VStr("bv*+ba/b"))
              ELSE SetKey(o, "format", Quality(it, c))
        o2 == SetKey(o1, "merge_output_format", VideoFormat(it, c))
    IN  IF Truthy(ConvertToAudio(it, c))
        THEN [o2 EXCEPT !.postprocessors = Append(@, ExtractAudio(it, c)),
                        !.keys = IF HasKey(o2, "postprocessors")
                                 THEN @ ELSE Append(@, "postprocessors")]
        ELSE o2

FormatOpts(o, it, c) ==
    IF RequestedType(it) = "audio" THEN AudioOpts(o, it, c) ELSE VideoOpts(o, it, c)

\* rate limit and SponsorBlock
ExtraOpts(o, it, c) ==
    LET o1 == IF DictHas(c, "rate_limit") \/ DictHas(it, "rate_limit")
              THEN SetKey(o, "ratelimit", RateLimit(it, c)) ELSE o
    IN  IF Truthy(RemoveSponsorSegments(it, c))
        THEN [o1 EXCEPT !.sponsorblock_mark = SponsorCategories,
                        !.keys = Append(@, "sponsorblock_mark")]
        ELSE o1

\* build_ydl_opts(item, cfg), when it returns
BuildYdlOpts(it, c) ==
    ExtraOpts(FormatOpts(NetworkOpts(DefaultOpts(it, c), it, c), it, c), it, c)

-----------------------------------------------------------------------------
(* download_item and main.                                                 *)

ItemsAbsent  == [k |-> "absent", l |-> << >>]
ItemsNull    == [k |-> "none",   l |-> << >>]
ItemsList(l) == [k |-> "list",   l |-> l]

NotLoaded == [top |-> EmptyCfg, items |-> ItemsAbsent]

\* cfg.get("items") or []
ItemsOrEmpty(c) == c.items.l

\* the emptiness check left out
NoItemsNever(c) == FALSE

\* if not items
NoItems(c) == ItemsOrEmpty(c) = << >>

\* every other item
NextIndexSkip(i) == i + 2

\* enumerate(items, 1): the index after i
NextIndex(i) == i + 1

\* "if url is None": an empty url passes
UrlMissingNoneOnly(it) == DictGet(it, "url") = None

\* if not url
UrlMissing(it) == ~Truthy(DictGet(it, "url"))

\* the flag ignored: every failure aborts
StopOnErrorAlways(c) == TRUE

\* the flag ignored: no failure aborts
StopOnErrorNever(c) == FALSE

\* "is not False": an absent or null flag counts as set
StopOnErrorUnlessFalse(c) == c.top["stop_on_error"] # VBool(FALSE)

\* cfg.get("stop_on_error", False)
StopOnError(c) == Truthy(DictGetDefault(c.top, "stop_on_error", VBool(FALSE)))

ExitUsage    == 2
ExitAborted  == 1
ExitFinished == 0

Running == -1

Event(ev, i) == [ev |-> ev, i |-> i]

Emit(ev, i) == trace' = Append(trace, Event(ev, i))

\* main: missing command-line argument
UsageExit ==
    /\ pc = "main"
    /\ ~argGiven
    /\ Emit("usage", 0)
    /\ rc' = ExitUsage
    /\ pc' = "exit"
    /\ UNCHANGED <<argGiven, fileExists, fileJson, cfg, items, idx, ydl_opts, dirs>>

\* main: config file does not exist
ConfigNotFound ==
    /\ pc = "main"
    /\ argGiven
    /\ ~fileExists
    /\ Emit("notfound", 0)
    /\ rc' = ExitUsage
    /\ pc' = "exit"
    /\ UNCHANGED <<argGiven, fileExists, fileJson, cfg, items, idx, ydl_opts, dirs>>

\* main: cfg = json.load(f)
LoadConfig ==
    /\ pc = "main"
    /\ argGiven
    /\ fileExists
    /\ cfg' = fileJson
    /\ pc' = "items"
    /\ UNCHANGED <<argGiven, fileExists, fileJson, items, idx, ydl_opts, rc, dirs, trace>>

\* main: items missing, null or empty
EmptyItems ==
    /\ pc = "items"
    /\ NoItems(cfg)
    /\ items' = ItemsOrEmpty(cfg)
    /\ Emit("noitems", 0)
    /\ rc' = ExitUsage
    /\ pc' = "exit"
    /\ UNCHANGED <<argGiven, fileExists, fileJson, cfg, idx, ydl_opts, dirs>>

\* main: the loop is entered
EnterLoop ==
    /\ pc = "items"
    /\ ~NoItems(cfg)
    /\ items' = ItemsOrEmpty(cfg)
    /\ idx' = 0
    /\ pc' = "loop"
    /\ UNCHANGED <<argGiven, fileExists, fileJson, cfg, ydl_opts, rc, dirs, trace>>

\* main: next iteration of "for idx, item in enumerate(items, 1)"
NextItem ==
    /\ pc = "loop"
    /\ idx < Len(items)
    /\ idx' = NextIndex(idx)
    /\ trace' = Append(trace, Event("processing", NextIndex(idx)))
    /\ pc' = "download_item"
    /\ UNCHANGED <<argGiven, fileExists, fileJson, cfg, items, ydl_opts, rc, dirs>>

\* main: the loop is exhausted
AllFinished ==
    /\ pc = "loop"
    /\ idx >= Len(items)
    /\ Emit("finished", 0)
    /\ rc' = ExitFinished
    /\ pc' = "exit"
    /\ UNCHANGED <<argGiven, fileExists, fileJson, cfg, items, idx, ydl_opts, dirs>>

\* download_item: raise ValueError("Every item must contain 'url'")
RaiseUrlMissing ==
    /\ pc = "download_item"
    /\ UrlMissing(items[idx])
    /\ Emit("raise", idx)
    /\ pc' = "except"
    /\ UNCHANGED <<argGiven, fileExists, fileJson, cfg, items, idx, ydl_opts, rc, dirs>>

\* download_item: ydl_opts = build_ydl_opts(item, cfg)
BuildOpts ==
    /\ pc = "download_item"
    /\ ~UrlMissing(items[idx])
    /\ ~LowerRaises(items[idx])
    /\ dirs' = dirs \cup {OutDir(cfg.top)}
    /\ Emit("mkdir", idx)
    /\ ydl_opts' = BuildYdlOpts(items[idx], cfg.top)
    /\ pc' = "ydl"
    /\ UNCHANGED <<argGiven, fileExists, fileJson, cfg, items, idx, rc>>

\* download_item: build_ydl_opts raises AttributeError at .lower(), after mkdir
BuildRaises ==
    /\ pc = "download_item"
    /\ ~UrlMissing(items[idx])
    /\ LowerRaises(items[idx])
    /\ dirs' = dirs \cup {OutDir(cfg.top)}
    /\ trace' = trace \o <<Event("mkdir", idx), Event("raise", idx)>>
    /\ pc' = "except"
    /\ UNCHANGED <<argGiven, fileExists, fileJson, cfg, items, idx, ydl_opts, rc>>

\* download_item: log "Start", then ydl.download([url]) is entered
StartDownload ==
    /\ pc = "ydl"
    /\ Emit("download", idx)
    /\ pc' = "downloading"
    /\ UNCHANGED <<argGiven, fileExists, fileJson, cfg, items, idx, ydl_opts, rc, dirs>>

\* download_item: ydl.download returns, log "Done."
DownloadDone ==
    /\ pc = "downloading"
    /\ Emit("done", idx)
    /\ ydl_opts' = NoOpts
    /\ pc' = "loop"
    /\ UNCHANGED <<argGiven, fileExists, fileJson, cfg, items, idx, rc, dirs>>

\* download_item: ydl.download raises
DownloadRaises ==
    /\ pc = "downloading"
    /\ Emit("raise", idx)
    /\ ydl_opts' = NoOpts
    /\ pc' = "except"
    /\ UNCHANGED <<argGiven, fileExists, fileJson, cfg, items, idx, rc, dirs>>

\* main: except Exception, stop_on_error set
ExceptStop ==
    /\ pc = "except"
    /\ StopOnError(cfg)
    /\ Emit("failed", idx)
    /\ rc' = ExitAborted
    /\ pc' = "exit"
    /\ UNCHANGED <<argGiven, fileExists, fileJson, cfg, items, idx, ydl_opts, dirs>>

\* main: except Exception, continue with the next item
ExceptContinue ==
    /\ pc = "except"
    /\ ~StopOnError(cfg)
    /\ Emit("failed", idx)
    /\ pc' = "loop"
    /\ UNCHANGED <<argGiven, fileExists, fileJson, cfg, items, idx, ydl_opts, rc, dirs>>

Next ==
    \/ UsageExit
    \/ ConfigNotFound
    \/ LoadConfig
    \/ EmptyItems
    \/ EnterLoop
    \/ NextItem
    \/ AllFinished
    \/ RaiseUrlMissing
    \/ BuildOpts
    \/ BuildRaises
    \/ StartDownload
    \/ DownloadDone
    \/ DownloadRaises
    \/ ExceptStop
    \/ ExceptContinue

-----------------------------------------------------------------------------
(* Inputs.                                                                 *)

MaxItems == 3

\* Items of the batch runs: the url and the type vary.
BatchItems ==
    {[EmptyItem EXCEPT !["url"] = u, !["type"] = t] :
        u \in {Absent, None, VStr(""), VStr("https://v/1")},
        t \in {Absent, VInt(7)}}

BatchItemLists ==
    {ItemsAbsent, ItemsNull}
        \cup {ItemsList(l) : l \in UNION {[1..n -> BatchItems] : n \in 0..MaxItems}}

BatchConfigs ==
    {[top |-> [EmptyCfg EXCEPT !["stop_on_error"] = s], items |-> l] :
        s \in {Absent, None, VBool(FALSE), VBool(TRUE)},
        l \in BatchItemLists}

\* Items and globals of the option-resolution runs: one item whose type is
\* free, and two further settings, each of an item key or of a global key.
Domain(key) ==
    CASE key = "url"                     -> {Absent, None, VStr("")}
      [] key = "filename_template"       -> {None, VStr(""), VStr("a.%(ext)s"), VStr("b.%(ext)s")}
      [] key = "proxy"                   -> {None, VStr(""), VStr("http://p1"), VStr("http://p2")}
      [] key = "ffmpeg_location"         -> {None, VStr(""), VStr("/opt/ff1"), VStr("/opt/ff2")}
      [] key = "cookies"                 -> {None, VStr(""), VStr("c1.txt"), VStr("c2.txt")}
      [] key = "concurrent_fragments"    -> {None, VInt(0), VInt(3), VInt(8)}
      [] key = "convert_to_audio"        -> {None, VBool(FALSE), VBool(TRUE)}
      [] key = "video_format"            -> {None, VStr("mkv"), VStr("webm")}
      [] key = "quality"                 -> {None, VStr("best"), VStr("bv*+ba/b"), VStr("720p")}
      [] key = "audio_format"            -> {None, VStr("m4a"), VStr("opus")}
      [] key = "audio_bitrate"           -> {None, VInt(128), VInt(320)}
      [] key = "rate_limit"              -> {None, VInt(500000), VInt(900000)}
      [] key = "remove_sponsor_segments" -> {None, VBool(FALSE), VBool(TRUE)}
      [] key = "stop_on_error"           -> {None, VBool(FALSE), VBool(TRUE)}
      [] key = "output_dir"              -> {VStr("out")}

TypeValues ==
    {Absent, None, VStr(""), VStr("video"), VStr("VIDEO"), VStr("audio"),
     VStr("AUDIO"), VStr("Audio"), VStr("clip"), VInt(7)}

Settings ==
    UNION {{[scope |-> "item", key |-> f, val |-> v] : v \in Domain(f)} :
              f \in ItemKeys \ {"type"}}
    \cup UNION {{[scope |-> "cfg", key |-> f, val |-> v] : v \in Domain(f)} :
                   f \in CfgKeys}

WithSetting(d, scope, a) == IF a.scope = scope THEN [d EXCEPT ![a.key] = a.val] ELSE d

PlanItem(t, a, b) ==
    WithSetting(WithSetting([EmptyItem EXCEPT !["url"] = VStr("https://v/1"),
                                              !["type"] = t], "item", a), "item", b)

PlanCfg(a, b) == WithSetting(WithSetting(EmptyCfg, "cfg", a), "cfg", b)

PlanConfigs ==
    {[top |-> PlanCfg(a, b), items |-> ItemsList(<<PlanItem(t, a, b)>>)] :
        t \in TypeValues, a \in Settings, b \in Settings}

\* The state before main runs; without a readable file its content is immaterial.
Start(configs) ==
    /\ argGiven \in BOOLEAN
    /\ fileExists \in BOOLEAN
    /\ fileJson \in configs
    /\ (~argGiven => ~fileExists)
    /\ (~fileExists => fileJson = NotLoaded)
    /\ cfg = NotLoaded
    /\ items = << >>
    /\ idx = 0
    /\ pc = "main"
    /\ ydl_opts = NoOpts
    /\ rc = Running
    /\ dirs = {}
    /\ trace = << >>

Init == Start(BatchConfigs \cup {NotLoaded})

Spec == Init /\ [][Next]_vars

InitPlan == Start(PlanConfigs \cup {NotLoaded})

PlanSpec == InitPlan /\ [][Next]_vars

-----------------------------------------------------------------------------
(* Reading the history.                                                    *)

Has(ev, i) == \E p \in 1..Len(trace) : trace[p] = Event(ev, i)

Count(ev, i) == Cardinality({p \in 1..Len(trace) : trace[p] = Event(ev, i)})

\* position of the first occurrence, 0 when there is none
Pos(ev, i) ==
    IF Has(ev, i) THEN CHOOSE p \in 1..Len(trace) :
                           /\ trace[p] = Event(ev, i)
                           /\ \A q \in 1..(p - 1) : trace[q] # Event(ev, i)
    ELSE 0

IsOutcome(e) == e.ev \in {"done", "failed"}
IsAttempt(e) == e.ev = "processing"

\* one entry per finished item: "done" or "failed", with the item's index
Outcomes == SelectSeq(trace, IsOutcome)
Attempts == SelectSeq(trace, IsAttempt)

\* the configuration as written in the file
InputItems  == fileJson.items.l
InputFlag   == fileJson.top["stop_on_error"]
ConfigRead  == argGiven /\ fileExists
EmptyUrl(it) == it["url"] \in {Absent, None, VStr("")}

\* no step of item i has happened
Untouched(i) == \A p \in 1..Len(trace) : trace[p].i # i

-----------------------------------------------------------------------------
\* C1: with stop_on_error false or absent, a run over a non-empty item list
\* returns nothing before the loop is exhausted, and then it has attempted
\* every item exactly once in input order, has one outcome per item (failed
\* exactly for the items that raised, done for the others) and the exit code
\* is 0, however many items failed.
BatchContinuation ==
    (ConfigRead /\ InputItems # << >> /\ InputFlag \in {Absent, VBool(FALSE)})
    => /\ pc # "exit" => rc = Running
       /\ pc = "exit" =>
           /\ rc = 0
           /\ Attempts = [i \in 1..Len(InputItems) |-> Event("processing", i)]
           /\ Len(Outcomes) = Len(InputItems)
           /\ \A i \in 1..Len(InputItems) :
                /\ Outcomes[i].i = i
                /\ Outcomes[i].ev = (IF Has("raise", i) THEN "failed" ELSE "done")
                /\ EmptyUrl(InputItems[i]) => Has("raise", i)

BatchContinuationWitness ==
    /\ pc = "exit" /\ rc = 0
    /\ InputFlag = VBool(FALSE)
    /\ Len(InputItems) = 3
    /\ Has("failed", 1) /\ Has("failed", 2) /\ Has("done", 3)

\* C2: with stop_on_error set, once item k has raised nothing of a later item
\* ever happens; the failure is recorded as outcome number k after k-1
\* successes, and the run then ends at once with exit code 1.
BatchAbort ==
    \A k \in 1..Len(InputItems) :
        (InputFlag = VBool(TRUE) /\ Has("raise", k))
        => /\ \A j \in (k + 1)..Len(InputItems) : Untouched(j)
           /\ \A j \in 1..(k - 1) : Outcomes[j] = Event("done", j)
           /\ \/ pc = "except" /\ rc = Running /\ Len(Outcomes) = k - 1
              \/ /\ pc = "exit" /\ rc = 1
                 /\ Len(Outcomes) = k
                 /\ Outcomes[k] = Event("failed", k)
                 /\ trace[Len(trace)] = Event("failed", k)

BatchAbortWitness ==
    /\ pc = "exit" /\ rc = 1
    /\ InputFlag = VBool(TRUE)
    /\ Len(InputItems) = 3
    /\ Outcomes = <<Event("done", 1), Event("failed", 2)>>
    /\ ~EmptyUrl(InputItems[3])
    /\ Untouched(3)

\* C7: an item without a url never reaches directory creation or the
\* retrieval call; it gets exactly one outcome, a failure of that item, and
\* when stop_on_error is false or absent the items after it are attempted.
EmptyUrlIsItemFailure ==
    \A i \in 1..Len(InputItems) :
        EmptyUrl(InputItems[i])
        => /\ ~Has("mkdir", i) /\ ~Has("download", i) /\ ~Has("done", i)
           /\ Count("failed", i) <= 1
           /\ (i < idx \/ (pc = "exit" /\ Has("processing", i)))
                => /\ Count("failed", i) = 1
                   /\ \A j \in 1..Len(InputItems) :
                        Has("failed", j) => Has("raise", j)
           /\ (pc = "exit" /\ InputFlag \in {Absent, VBool(FALSE)})
                => \A j \in (i + 1)..Len(InputItems) : Has("processing", j)

EmptyUrlIsItemFailureWitness ==
    /\ Len(InputItems) >= 2
    /\ EmptyUrl(InputItems[1])
    /\ InputFlag \in {Absent, VBool(FALSE)}
    /\ Has("failed", 1)
    /\ Has("download", 2)

\* C8 as stated: a missing url aborts the whole run, so that nothing of a
\* later item happens after it has been detected, whatever stop_on_error is.
MissingUrlAbortsRun ==
    \A i \in 1..Len(InputItems) :
        (EmptyUrl(InputItems[i]) /\ Has("raise", i))
        => \A j \in (i + 1)..Len(InputItems) : Untouched(j)

\* C8 amended: a missing argument, a missing file and a missing or empty
\* item list end the run with exit code 2 before any item is attempted,
\* whatever stop_on_error is; a missing url is the failure of its item and
\* ends the run (exit code 1) only when stop_on_error is set: otherwise the
\* run goes on to the next item.
PreflightAbortsUrlDoesNot ==
    /\ (pc = "exit" /\ (~ConfigRead \/ InputItems = << >>))
        => (rc = 2 /\ Len(trace) = 1 /\ trace[1].i = 0 /\ dirs = {})
    /\ \A i \in 1..Len(InputItems) :
        (EmptyUrl(InputItems[i]) /\ Has("failed", i))
        => IF Truthy(InputFlag)
           THEN pc = "exit" /\ rc = 1
                /\ \A j \in (i + 1)..Len(InputItems) : Untouched(j)
           ELSE /\ rc # 1
                /\ (pc = "exit") => \A j \in (i + 1)..Len(InputItems) :
                                        Has("processing", j)

PreflightAbortsUrlDoesNotWitness ==
    /\ Len(InputItems) = 2
    /\ EmptyUrl(InputItems[1])
    /\ InputFlag = None
    /\ Has("failed", 1)
    /\ Has("done", 2)
    /\ pc = "exit"

\* C9: a missing, null or empty item list is rejected before the loop: no
\* item is attempted, no directory is created, no retrieval is called and
\* the exit code is 2; every other run that read its config returns 1
\* exactly when it stopped on a failure under stop_on_error, else 0.
ExitCodes ==
    (pc = "exit" /\ ConfigRead)
    => IF fileJson.items.k # "list" \/ InputItems = << >>
       THEN rc = 2 /\ trace = <<Event("noitems", 0)>> /\ dirs = {} /\ idx = 0
       ELSE /\ rc \in {0, 1}
            /\ rc = 1 <=> /\ Truthy(InputFlag)
                          /\ Len(Outcomes) > 0
                          /\ Outcomes[Len(Outcomes)].ev = "failed"
            /\ rc = 1 <=> (\E i \in 1..Len(InputItems) : Has("raise", i))
                            /\ Truthy(InputFlag)
            /\ rc = 0 => Has("finished", 0) /\ Len(Outcomes) = Len(InputItems)

ExitCodesWitness ==
    /\ pc = "exit" /\ rc = 2
    /\ ConfigRead
    /\ fileJson.items = ItemsList(<< >>)

\* C10: items are started in input order, one at a time: item i+1 is
\* started, and its directory created, only after item i has its outcome;
\* within an item the directory is created before the retrieval is called
\* and the retrieval has returned or raised before the outcome is recorded.
Sequential ==
    /\ \A p \in 1..Len(Attempts) : Attempts[p].i = p
    /\ \A p \in 1..Len(Outcomes) : Outcomes[p].i = p
    /\ Len(Attempts) - Len(Outcomes) \in {0, 1}
    /\ (Len(Attempts) > Len(Outcomes)) <=> pc \in {"download_item", "ydl", "downloading", "except"}
    /\ \A i \in 1..Len(InputItems) :
        /\ Count("processing", i) <= 1 /\ Count("mkdir", i) <= 1
        /\ Count("download", i) <= 1
        /\ Has("mkdir", i) => Pos("processing", i) < Pos("mkdir", i)
        /\ Has("download", i) => Has("mkdir", i) /\ Pos("mkdir", i) < Pos("download", i)
        /\ Has("done", i) => Has("download", i) /\ Pos("download", i) < Pos("done", i)
        /\ Has("failed", i) => Has("raise", i) /\ Pos("raise", i) < Pos("failed", i)
        /\ (i > 1 /\ Has("processing", i))
            => /\ Len(Outcomes) >= i - 1
               /\ \E p \in 1..Len(trace) :
                    /\ IsOutcome(trace[p]) /\ trace[p].i = i - 1
                    /\ p < Pos("processing", i)

SequentialWitness ==
    /\ Len(InputItems) = 3
    /\ Has("done", 1) /\ Has("failed", 2) /\ Has("download", 2)
    /\ Has("download", 3)
    /\ pc = "downloading"

-----------------------------------------------------------------------------
(* Option resolution.                                                      *)

\* the option set of the item in progress has been built
Built == pc \in {"ydl", "downloading"}

CurItem == items[idx]
CurCfg  == cfg.top

TypeIsAudio(it) == it["type"] \in {VStr("audio"), VStr("AUDIO"), VStr("Audio")}

KeyPos(o, key) == CHOOSE i \in 1..Len(o.keys) : o.keys[i] = key

\* the documented merge: the item's value when present (neither absent nor
\* null), else the global one when present, else the builtin default
Present(v) == v \notin {Absent, None}

Merge(it, c, key, default) ==
    IF Present(it[key]) THEN it[key]
    ELSE IF Present(c[key]) THEN c[key]
    ELSE default

\* an optional key of the option set carries the merged value, when there is
\* one; without one the key is left out or holds None
OptionalIs(o, key, m) == IF m = None THEN o[key] \in {Absent, None} ELSE o[key] = m

\* C3 as stated: every overridable field enters the plan with the item's
\* value when present, else the global value when present, else the
\* documented builtin default.
MergePrecedence ==
    Built =>
    LET it == CurItem
        c  == CurCfg
        o  == ydl_opts
        step == [key |-> "FFmpegExtractAudio",
                 preferredcodec |-> Merge(it, c, "audio_format", VStr("mp3")),
                 preferredquality |->
                     VStr(PyStr(Merge(it, c, "audio_bitrate", VInt(192))))]
    IN  /\ o.outtmpl = VStr(OutDir(c) \o "/"
                \o Merge(it, c, "filename_template", VStr("%(title)s.%(ext)s")).s)
        /\ OptionalIs(o, "proxy", Merge(it, c, "proxy", None))
        /\ OptionalIs(o, "ffmpeg_location", Merge(it, c, "ffmpeg_location", None))
        /\ OptionalIs(o, "cookiefile", Merge(it, c, "cookies", None))
        /\ o.concurrent_fragment_downloads = Merge(it, c, "concurrent_fragments", VInt(5))
        /\ OptionalIs(o, "ratelimit", Merge(it, c, "rate_limit", None))
        /\ HasKey(o, "sponsorblock_mark")
            <=> Truthy(Merge(it, c, "remove_sponsor_segments", VBool(FALSE)))
        /\ \A p \in 1..Len(o.postprocessors) : o.postprocessors[p] = step
        /\ ~TypeIsAudio(it) =>
            /\ o.merge_output_format = Merge(it, c, "video_format", VStr("mp4"))
            /\ o.format = (IF Merge(it, c, "quality", VStr("best")) = VStr("best")
                           THEN VStr("bv*+ba/b")
                           ELSE Merge(it, c, "quality", VStr("best")))
            /\ (o.postprocessors # << >>)
                <=> Truthy(Merge(it, c, "convert_to_audio", VBool(FALSE)))

\* What does hold of the merge: the documented precedence, for the inputs in
\* which no overridable field is null or the empty string.
MergePrecedenceNoNull ==
    (Built /\ \A key \in OverridableKeys :
                /\ CurItem[key] \notin {None, VStr("")}
                /\ CurCfg[key] \notin {None, VStr("")})
    => MergePrecedence

\* C4: an item whose type lower-cases to "audio" gets the fixed audio
\* selector, exactly one post-processing step (audio extraction with the
\* audio codec and the bitrate string in effect) and no container format,
\* whatever quality, video_format and convert_to_audio are.
AudioPlan ==
    (Built /\ TypeIsAudio(CurItem))
    => /\ ydl_opts.format = VStr("bestaudio/best")
       /\ ydl_opts.postprocessors =
            <<[key |-> "FFmpegExtractAudio",
               preferredcodec |-> AudioFormat(CurItem, CurCfg),
               preferredquality |-> AudioBitrate(CurItem, CurCfg)]>>
       /\ ydl_opts.postprocessors[1].preferredquality.k = "str"
       /\ ~HasKey(ydl_opts, "merge_output_format")
       /\ ydl_opts.merge_output_format = Absent
       /\ Count("raise", idx) = 0

AudioPlanWitness ==
    /\ Built
    /\ CurItem["type"] = VStr("AUDIO")
    /\ CurItem["convert_to_audio"] = VBool(TRUE)
    /\ CurCfg["video_format"] = VStr("mkv")
    /\ Len(ydl_opts.postprocessors) = 1

\* the video plan: the container in effect, and one audio extraction step,
\* set after the container, exactly when convert_to_audio is in effect
VideoPlanBuilt ==
    /\ ydl_opts.merge_output_format = VideoFormat(CurItem, CurCfg)
    /\ ydl_opts.postprocessors =
         (IF Truthy(ConvertToAudio(CurItem, CurCfg))
          THEN <<[key |-> "FFmpegExtractAudio",
                  preferredcodec |-> AudioFormat(CurItem, CurCfg),
                  preferredquality |-> AudioBitrate(CurItem, CurCfg)]>>
          ELSE << >>)
    /\ HasKey(ydl_opts, "postprocessors") <=> Truthy(ConvertToAudio(CurItem, CurCfg))
    /\ HasKey(ydl_opts, "postprocessors")
        => KeyPos(ydl_opts, "merge_output_format") < KeyPos(ydl_opts, "postprocessors")

\* C5 as stated: for an item whose type is absent, "video" or any value
\* other than "audio", resolution never fails on the type (the retrieval is
\* reached once the directory exists) and yields the video plan.
VideoPlan ==
    \A i \in 1..Len(InputItems) :
        ~TypeIsAudio(InputItems[i])
        => /\ Has("mkdir", i) => ((pc = "ydl" /\ idx = i) \/ Has("download", i))
           /\ (Built /\ idx = i) => VideoPlanBuilt

\* The same for the types that can be lower-cased: absent, null, "" and
\* strings other than "audio".
VideoPlanTextType ==
    \A i \in 1..Len(InputItems) :
        (~TypeIsAudio(InputItems[i]) /\ InputItems[i]["type"].k \notin {"int", "bool"})
        => /\ Has("mkdir", i) => ((pc = "ydl" /\ idx = i) \/ Has("download", i))
           /\ (Built /\ idx = i) => VideoPlanBuilt

\* C6: in a video plan the selector is the composite "bv*+ba/b" when the
\* quality in effect is "best", and the quality in effect itself, unchanged,
\* for every other value.
QualitySelector ==
    (Built /\ ~TypeIsAudio(CurItem))
    => LET q == IF CurItem["quality"] # Absent THEN CurItem["quality"]
                ELSE IF CurCfg["quality"] # Absent THEN CurCfg["quality"]
                ELSE VStr("best")
       IN  /\ q = VStr("best") => ydl_opts.format = VStr("bv*+ba/b")
           /\ q # VStr("best") => ydl_opts.format = q

QualitySelectorWitness ==
    /\ Built
    /\ CurItem["type"] = VStr("clip")
    /\ CurItem["quality"] = VStr("720p")
    /\ CurCfg["quality"] = VStr("best")
    /\ ydl_opts.format = VStr("720p")

====
